---- MODULE Spec2Model ----
(***************************************************************************)
(* Continuation-passing rewrite pass over the untyped expression tree      *)
(* (compiler-core/src/ast/cps.rs).                                         *)
(*                                                                         *)
(* Expressions are records carrying a `tag` and the fields the pass names  *)
(* when it rebuilds a node.  Option<T> is a sequence of length 0 or 1, a   *)
(* Vec / Vec1 is a sequence.  The literal text of Int / Float / String is  *)
(* held in `lit`.  A continuation is a pure function; every operator of    *)
(* the pass returns the rebuilt tree in `out` together with `calls`, the   *)
(* sequence of continuation applications it made, in evaluation order.     *)
(***************************************************************************)
EXTENDS Integers, Sequences, FiniteSets, TLC

\* ------------------------------------------------------------- bounds ----
MaxLoc == 2
MaxArgs == 2
MaxInit == 1

Locs == 1..MaxLoc

\* ------------------------------------------------------ tree helpers ----
RECURSIVE location(_)
location(expr) ==
    IF expr.tag = "PipeLine"
    THEN location(expr.expressions[Len(expr.expressions)])
    ELSE expr.location

RECURSIVE Concat(_)
Concat(ss) == IF ss = <<>> THEN <<>> ELSE Head(ss) \o Concat(Tail(ss))

Outs(rs) == [i \in DOMAIN rs |-> rs[i].out]
Calls(rs) == Concat([i \in DOMAIN rs |-> rs[i].calls])

\* ------------------------------------------------------ continuations ----
\* body_k of cps_fn: a call to the injected parameter at the value's location
body_k(stmt) ==
    [tag |-> "Call",
     location |-> location(stmt),
     fun |-> [tag |-> "Var", location |-> location(stmt), name |-> "go"],
     arguments |-> << [location |-> location(stmt), value |-> stmt,
                       label |-> <<>>, implicit |-> <<>>] >>]

\* the continuations supplied to the pass: the identity, body_k, one that
\* boxes its input in a fresh tuple, and one that discards its input
Conts == {"id", "go", "box", "drop"}

Apply(k, x) ==
    CASE k = "id" -> x
      [] k = "go" -> body_k(x)
      [] k = "box" -> [tag |-> "Tuple", location |-> 0, elems |-> <<x>>]
      [] k = "drop" -> [tag |-> "Placeholder", location |-> 0]

\* k(&node), after the continuation applications made for the children
Invoke(k, node, before) ==
    [out |-> Apply(k, node), calls |-> before \o << [k |-> k, arg |-> node] >>]

\* -------------------------------------------------------------- pass ----
RECURSIVE to_cps(_, _)
RECURSIVE cps_statement(_, _)
RECURSIVE cps_fn(_, _)
RECURSIVE cps_list(_, _)
RECURSIVE cps_call(_, _)
RECURSIVE cps_bin_op(_, _)
RECURSIVE cps_pipe_line(_, _)
RECURSIVE cps_case(_, _)
RECURSIVE cps_field_access(_, _)
RECURSIVE cps_tuple(_, _)
RECURSIVE cps_tuple_index(_, _)
RECURSIVE cps_block(_, _)
RECURSIVE cps_todo(_, _)
RECURSIVE cps_panic(_, _)
RECURSIVE cps_echo(_, _)
RECURSIVE cps_bit_array_option(_, _)
RECURSIVE cps_bit_array(_, _)
RECURSIVE cps_record_being_updated(_, _)
RECURSIVE cps_record_update_arg(_, _)
RECURSIVE cps_record_update(_, _)
RECURSIVE cps_negate_bool(_, _)
RECURSIVE cps_negate_int(_, _)

\* elements.iter().map(|e| to_cps(e, k)); also Option::map on a 0/1 sequence
MapCps(es, k) ==
    LET rs == [i \in DOMAIN es |-> to_cps(es[i], k)]
    IN [out |-> Outs(rs), calls |-> Calls(rs)]

cps_atom(expr, k) == Invoke(k, expr, <<>>)

cps_statement(statement, k) ==
    CASE statement.stmt = "Expression" ->
           LET r == to_cps(statement.expr, k)
           IN [out |-> [stmt |-> "Expression", expr |-> r.out], calls |-> r.calls]
      [] statement.stmt = "Assignment" ->
           LET r == to_cps(statement.value, k)
           IN [out |-> [statement EXCEPT !.value = r.out], calls |-> r.calls]
      [] statement.stmt = "Use" ->
           LET r == to_cps(statement.call, k)
           IN [out |-> [statement EXCEPT !.call = r.out], calls |-> r.calls]

\* the injected parameter put first instead of last
cps_fn_go_first(expr, k) ==
    LET r == cps_statement(expr.body[Len(expr.body)], "go")
        go_arg == [location |-> location(expr),
                   names |-> [name |-> "go", location |-> location(expr)],
                   annotation |-> <<>>]
        fn_expr == [expr EXCEPT !.arguments = <<go_arg>> \o expr.arguments,
                                !.body[Len(expr.body)] = r.out]
    IN Invoke(k, fn_expr, r.calls)

\* the final statement rewritten with the outer continuation
cps_fn_outer_k(expr, k) ==
    LET r == cps_statement(expr.body[Len(expr.body)], k)
        go_arg == [location |-> location(expr),
                   names |-> [name |-> "go", location |-> location(expr)],
                   annotation |-> <<>>]
        fn_expr == [expr EXCEPT !.arguments = Append(expr.arguments, go_arg),
                                !.body[Len(expr.body)] = r.out]
    IN Invoke(k, fn_expr, r.calls)

\* every statement of the body rewritten, not only the final one
cps_fn_all_statements(expr, k) ==
    LET rs == [i \in DOMAIN expr.body |-> cps_statement(expr.body[i], "go")]
        go_arg == [location |-> location(expr),
                   names |-> [name |-> "go", location |-> location(expr)],
                   annotation |-> <<>>]
        fn_expr == [expr EXCEPT !.arguments = Append(expr.arguments, go_arg),
                                !.body = Outs(rs)]
    IN Invoke(k, fn_expr, Calls(rs))

cps_fn(expr, k) ==
    LET go_arg == [location |-> location(expr),
                   names |-> [name |-> "go", location |-> location(expr)],
                   annotation |-> <<>>]
        n == Len(expr.body)
        init == SubSeq(expr.body, 1, n - 1)
        last == expr.body[n]
        body_cps == cps_statement(last, "go")
        fn_expr == [tag |-> "Fn",
                    location |-> location(expr),
                    kind |-> expr.kind,
                    end_of_head_byte_index |-> expr.end_of_head_byte_index,
                    arguments |-> Append(expr.arguments, go_arg),
                    body |-> Append(init, body_cps.out),
                    return_annotation |-> expr.return_annotation]
    IN Invoke(k, fn_expr, body_cps.calls)

\* the rest-tail of the list dropped
cps_list_no_tail(expr, k) ==
    LET es == MapCps(expr.elements, k)
        list == [tag |-> "List", location |-> location(expr),
                 elements |-> es.out, tail |-> <<>>]
    IN Invoke(k, list, es.calls)

cps_list(expr, k) ==
    LET es == MapCps(expr.elements, k)
        tl == MapCps(expr.tail, k)
        list == [tag |-> "List", location |-> location(expr),
                 elements |-> es.out, tail |-> tl.out]
    IN Invoke(k, list, es.calls \o tl.calls)

\* the callee copied instead of rewritten
cps_call_keep_fun(expr, k) ==
    LET rs == [i \in DOMAIN expr.arguments |-> to_cps(expr.arguments[i].value, k)]
        call == [tag |-> "Call", location |-> location(expr),
                 fun |-> expr.fun,
                 arguments |-> [i \in DOMAIN expr.arguments |->
                                  [expr.arguments[i] EXCEPT !.value = rs[i].out]]]
    IN Invoke(k, call, Calls(rs))

cps_call(expr, k) ==
    LET f == to_cps(expr.fun, k)
        rs == [i \in DOMAIN expr.arguments |-> to_cps(expr.arguments[i].value, k)]
        call == [tag |-> "Call", location |-> location(expr),
                 fun |-> f.out,
                 arguments |-> [i \in DOMAIN expr.arguments |->
                                  [expr.arguments[i] EXCEPT !.value = rs[i].out]]]
    IN Invoke(k, call, f.calls \o Calls(rs))

cps_bin_op(expr, k) ==
    LET l == to_cps(expr.left, k)
        r == to_cps(expr.right, k)
        bin_op == [tag |-> "BinOp", location |-> location(expr),
                   name |-> expr.name, left |-> l.out, right |-> r.out]
    IN Invoke(k, bin_op, l.calls \o r.calls)

cps_pipe_line(expr, k) ==
    LET es == MapCps(expr.expressions, k)
        pipe_line == [tag |-> "PipeLine", expressions |-> es.out]
    IN Invoke(k, pipe_line, es.calls)

\* the clause bodies copied instead of rewritten
cps_case_keep_then(expr, k) ==
    LET ss == MapCps(expr.subjects, k)
        case == [tag |-> "Case", location |-> location(expr),
                 subjects |-> ss.out, clauses |-> expr.clauses]
    IN Invoke(k, case, ss.calls)

cps_case(expr, k) ==
    LET ss == MapCps(expr.subjects, k)
        cl == [o \in DOMAIN expr.clauses |->
                 LET rs == [i \in DOMAIN expr.clauses[o] |->
                              to_cps(expr.clauses[o][i].then, k)]
                 IN [out |-> [i \in DOMAIN expr.clauses[o] |->
                                [expr.clauses[o][i] EXCEPT !.then = rs[i].out]],
                     calls |-> Calls(rs)]]
        case == [tag |-> "Case", location |-> location(expr),
                 subjects |-> ss.out, clauses |-> Outs(cl)]
    IN Invoke(k, case, ss.calls \o Calls(cl))

cps_field_access(expr, k) ==
    LET c == to_cps(expr.container, k)
        field_access == [tag |-> "FieldAccess", location |-> location(expr),
                         label |-> expr.label,
                         label_location |-> expr.label_location,
                         container |-> c.out]
    IN Invoke(k, field_access, c.calls)

cps_tuple(expr, k) ==
    LET es == MapCps(expr.elems, k)
        tuple == [tag |-> "Tuple", location |-> location(expr), elems |-> es.out]
    IN Invoke(k, tuple, es.calls)

cps_tuple_index(expr, k) ==
    LET t == to_cps(expr.tuple, k)
        tuple_index == [tag |-> "TupleIndex", location |-> location(expr),
                        index |-> expr.index, tuple |-> t.out]
    IN Invoke(k, tuple_index, t.calls)

\* only the final statement of the block rewritten
cps_block_last_only(expr, k) ==
    LET n == Len(expr.statements)
        r == cps_statement(expr.statements[n], k)
        block == [tag |-> "Block", location |-> location(expr),
                  statements |-> [expr.statements EXCEPT ![n] = r.out]]
    IN Invoke(k, block, r.calls)

cps_block(expr, k) ==
    LET rs == [i \in DOMAIN expr.statements |-> cps_statement(expr.statements[i], k)]
        block == [tag |-> "Block", location |-> location(expr),
                  statements |-> Outs(rs)]
    IN Invoke(k, block, Calls(rs))

cps_todo(expr, k) ==
    LET m == MapCps(expr.message, k)
        todo == [tag |-> "Todo", kind |-> expr.kind,
                 location |-> location(expr), message |-> m.out]
    IN Invoke(k, todo, m.calls)

cps_panic(expr, k) ==
    LET m == MapCps(expr.message, k)
        panic == [tag |-> "Panic", location |-> location(expr), message |-> m.out]
    IN Invoke(k, panic, m.calls)

\* the payload of echo copied instead of rewritten
cps_echo_keep(expr, k) ==
    Invoke(k, [tag |-> "Echo", location |-> location(expr),
               expression |-> expr.expression], <<>>)

cps_echo(expr, k) ==
    LET e == MapCps(expr.expression, k)
        echo == [tag |-> "Echo", location |-> location(expr), expression |-> e.out]
    IN Invoke(k, echo, e.calls)

\* the size option rebuilt without its short_form flag
cps_bit_array_option_long(option, k) ==
    IF option.opt = "Size"
    THEN LET v == to_cps(option.value, k)
         IN [out |-> [opt |-> "Size", location |-> option.location,
                      short_form |-> FALSE, value |-> v.out],
             calls |-> v.calls]
    ELSE [out |-> option, calls |-> <<>>]

cps_bit_array_option(option, k) ==
    IF option.opt = "Size"
    THEN LET v == to_cps(option.value, k)
         IN [out |-> [opt |-> "Size", location |-> option.location,
                      short_form |-> option.short_form, value |-> v.out],
             calls |-> v.calls]
    ELSE [out |-> option, calls |-> <<>>]

cps_bit_array(expr, k) ==
    LET rs == [i \in DOMAIN expr.segments |->
                 LET segment == expr.segments[i]
                     v == to_cps(segment.value, k)
                     os == [j \in DOMAIN segment.options |->
                              cps_bit_array_option(segment.options[j], k)]
                 IN [out |-> [segment EXCEPT !.value = v.out, !.options = Outs(os)],
                     calls |-> v.calls \o Calls(os)]]
        bit_array == [tag |-> "BitArray", location |-> location(expr),
                      segments |-> Outs(rs)]
    IN Invoke(k, bit_array, Calls(rs))

cps_record_being_updated(record, k) ==
    LET b == to_cps(record.base, k)
    IN [out |-> [base |-> b.out, location |-> record.location], calls |-> b.calls]

cps_record_update_arg(arg, k) ==
    LET v == to_cps(arg.value, k)
    IN [out |-> [arg EXCEPT !.value = v.out], calls |-> v.calls]

cps_record_update(expr, k) ==
    LET c == to_cps(expr.constructor, k)
        r == cps_record_being_updated(expr.record, k)
        as == [i \in DOMAIN expr.arguments |->
                 cps_record_update_arg(expr.arguments[i], k)]
        record_update == [tag |-> "RecordUpdate", location |-> location(expr),
                          constructor |-> c.out, record |-> r.out,
                          arguments |-> Outs(as)]
    IN Invoke(k, record_update, c.calls \o r.calls \o Calls(as))

cps_negate_bool(expr, k) ==
    LET v == to_cps(expr.value, k)
        negate_bool == [tag |-> "NegateBool", location |-> location(expr),
                        value |-> v.out]
    IN Invoke(k, negate_bool, v.calls)

cps_negate_int(expr, k) ==
    LET v == to_cps(expr.value, k)
        negate_int == [tag |-> "NegateInt", location |-> location(expr),
                       value |-> v.out]
    IN Invoke(k, negate_int, v.calls)

to_cps(expr, k) ==
    CASE expr.tag \in {"Int", "Float", "String", "Var"} -> cps_atom(expr, k)
      [] expr.tag = "Block" -> cps_block(expr, k)
      [] expr.tag = "List" -> cps_list(expr, k)
      [] expr.tag = "Tuple" -> cps_tuple(expr, k)
      [] expr.tag = "BitArray" -> cps_bit_array(expr, k)
      [] expr.tag = "Case" -> cps_case(expr, k)
      [] expr.tag = "Fn" -> cps_fn(expr, k)
      [] expr.tag = "Call" -> cps_call(expr, k)
      [] expr.tag = "BinOp" -> cps_bin_op(expr, k)
      [] expr.tag = "PipeLine" -> cps_pipe_line(expr, k)
      [] expr.tag = "FieldAccess" -> cps_field_access(expr, k)
      [] expr.tag = "TupleIndex" -> cps_tuple_index(expr, k)
      [] expr.tag = "RecordUpdate" -> cps_record_update(expr, k)
      [] expr.tag = "NegateBool" -> cps_negate_bool(expr, k)
      [] expr.tag = "NegateInt" -> cps_negate_int(expr, k)
      [] expr.tag = "Todo" -> cps_todo(expr, k)
      [] expr.tag = "Panic" -> cps_panic(expr, k)
      [] expr.tag = "Echo" -> cps_echo(expr, k)
      [] expr.tag = "Placeholder" ->
           Invoke(k, [tag |-> "Placeholder", location |-> expr.location], <<>>)

\* ------------------------------------------------------------ inputs ----
Atom(t, l) == [tag |-> t, location |-> l, lit |-> "1"]
Var(n, l) == [tag |-> "Var", location |-> l, name |-> n]
Placeholder(l) == [tag |-> "Placeholder", location |-> l]

Expression(e) == [stmt |-> "Expression", expr |-> e]
Assignment(p, e, l) ==
    [stmt |-> "Assignment", location |-> l, value |-> e, pattern |-> p,
     kind |-> "Let", annotation |-> <<>>]
Use(e, l) ==
    [stmt |-> "Use", location |-> l, call |-> e, assignments |-> <<"r">>]

CallArg(lbl, e, l) ==
    [location |-> l, value |-> e, label |-> lbl, implicit |-> <<>>]
Call(f, args, l) == [tag |-> "Call", location |-> l, fun |-> f, arguments |-> args]
Clause(p, g, e, l) ==
    [location |-> l, pattern |-> p, alternative_patterns |-> <<>>,
     guard |-> g, then |-> e]
Segment(e, opts, l) == [location |-> l, value |-> e, options |-> opts]
Size(e, short, l) ==
    [opt |-> "Size", location |-> l, short_form |-> short, value |-> e]
Arg(n, ann, l) ==
    [location |-> l, names |-> [name |-> n, location |-> l], annotation |-> ann]

\* sibling expressions, at locations of their own
d1 == Var("a", 11)
d2 == Var("b", 12)
d3 == Atom("Int", 13)

Shapes ==
    {"Block1", "Block3", "ListE", "List", "ListT", "Tuple", "Bits", "BitsSz",
     "Case", "CaseG", "CaseN", "Call", "CallF", "BinOp", "BinOpR", "Pipe",
     "PipeL", "Field", "TIdx", "RecUp", "RecUpC", "NegB", "NegI", "Todo",
     "TodoM", "Panic", "PanicM", "Echo", "EchoE"}

\* one node of the named shape at location l around the child c
Mk(sh, c, l) ==
    CASE sh = "Block1" ->
           [tag |-> "Block", location |-> l, statements |-> <<Expression(c)>>]
      [] sh = "Block3" ->
           [tag |-> "Block", location |-> l,
            statements |-> <<Assignment("p", c, 21), Use(Call(d1, <<>>, 22), 23),
                             Expression(d2)>>]
      [] sh = "ListE" ->
           [tag |-> "List", location |-> l, elements |-> <<>>, tail |-> <<>>]
      [] sh = "List" ->
           [tag |-> "List", location |-> l, elements |-> <<c, d1>>, tail |-> <<>>]
      [] sh = "ListT" ->
           [tag |-> "List", location |-> l, elements |-> <<d1>>, tail |-> <<c>>]
      [] sh = "Tuple" ->
           [tag |-> "Tuple", location |-> l, elems |-> <<d1, c>>]
      [] sh = "Bits" ->
           [tag |-> "BitArray", location |-> l,
            segments |-> <<Segment(c, <<>>, 24)>>]
      [] sh = "BitsSz" ->
           [tag |-> "BitArray", location |-> l,
            segments |-> <<Segment(d1, <<Size(c, FALSE, 25),
                                         [opt |-> "Utf8", location |-> 26]>>, 27),
                           Segment(d2, <<Size(d3, TRUE, 28)>>, 29)>>]
      [] sh = "Case" ->
           [tag |-> "Case", location |-> l, subjects |-> <<c>>,
            clauses |-> << <<Clause("_", <<>>, d1, 31),
                             Clause("q", <<>>, d2, 32)>> >>]
      [] sh = "CaseG" ->
           [tag |-> "Case", location |-> l, subjects |-> <<d1, d2>>,
            clauses |-> << <<Clause("q", <<"g">>, c, 33)>> >>]
      [] sh = "CaseN" ->
           [tag |-> "Case", location |-> l, subjects |-> <<c>>, clauses |-> <<>>]
      [] sh = "Call" ->
           Call(d1, <<CallArg(<<"lbl">>, c, 34), CallArg(<<>>, d2, 35)>>, l)
      [] sh = "CallF" -> Call(c, <<>>, l)
      [] sh = "BinOp" ->
           [tag |-> "BinOp", location |-> l, name |-> "AddInt",
            left |-> c, right |-> d1]
      [] sh = "BinOpR" ->
           [tag |-> "BinOp", location |-> l, name |-> "SubInt",
            left |-> d1, right |-> c]
      [] sh = "Pipe" -> [tag |-> "PipeLine", expressions |-> <<c, d1>>]
      [] sh = "PipeL" -> [tag |-> "PipeLine", expressions |-> <<d1, d2, c>>]
      [] sh = "Field" ->
           [tag |-> "FieldAccess", location |-> l, label |-> "f",
            label_location |-> 36, container |-> c]
      [] sh = "TIdx" ->
           [tag |-> "TupleIndex", location |-> l, index |-> 1, tuple |-> c]
      [] sh = "RecUp" ->
           [tag |-> "RecordUpdate", location |-> l, constructor |-> d1,
            record |-> [base |-> c, location |-> 37],
            arguments |-> << [label |-> "f", location |-> 38, value |-> d2] >>]
      [] sh = "RecUpC" ->
           [tag |-> "RecordUpdate", location |-> l, constructor |-> c,
            record |-> [base |-> d1, location |-> 37],
            arguments |-> << [label |-> "f", location |-> 38, value |-> d2],
                             [label |-> "g", location |-> 39, value |-> d3] >>]
      [] sh = "NegB" -> [tag |-> "NegateBool", location |-> l, value |-> c]
      [] sh = "NegI" -> [tag |-> "NegateInt", location |-> l, value |-> c]
      [] sh = "Todo" ->
           [tag |-> "Todo", kind |-> "Keyword", location |-> l, message |-> <<>>]
      [] sh = "TodoM" ->
           [tag |-> "Todo", kind |-> "EmptyFunction", location |-> l,
            message |-> <<c>>]
      [] sh = "Panic" -> [tag |-> "Panic", location |-> l, message |-> <<>>]
      [] sh = "PanicM" -> [tag |-> "Panic", location |-> l, message |-> <<c>>]
      [] sh = "Echo" -> [tag |-> "Echo", location |-> l, expression |-> <<>>]
      [] sh = "EchoE" -> [tag |-> "Echo", location |-> l, expression |-> <<c>>]

Atoms ==
    {Atom(t, l) : t \in {"Int", "Float", "String"}, l \in Locs}
        \cup {Var("x", l) : l \in Locs} \cup {Placeholder(l) : l \in Locs}

Level1 == {Mk(sh, c, l) : sh \in Shapes, c \in Atoms, l \in Locs}
Core1 == {Mk(sh, Var("x", 1), 1) : sh \in Shapes}
Level2 == {Mk(sh, c, MaxLoc) : sh \in Shapes, c \in Core1}

\* expressions without a function literal
NoFnExprs == Atoms \cup Level1 \cup Level2

ArgPool == <<Arg("x", <<>>, 41), Arg("go", <<"Int">>, 42), Arg("y", <<>>, 43),
             Arg("z", <<>>, 44)>>

FnLit(nargs, init, last, l) ==
    [tag |-> "Fn", location |-> l, kind |-> "Anonymous",
     end_of_head_byte_index |-> l + 50,
     arguments |-> SubSeq(ArgPool, 1, nargs),
     body |-> Append(init, last),
     return_annotation |-> IF nargs = 1 THEN <<"Int">> ELSE <<>>]

MkStmt(kind, e) ==
    CASE kind = "Expression" -> Expression(e)
      [] kind = "Assignment" -> Assignment("v", e, 45)
      [] kind = "Use" -> Use(e, 46)

StmtKinds == {"Expression", "Assignment", "Use"}

InnerFn == FnLit(1, <<>>, Expression(Var("x", 1)), 3)
InnerFn2 == FnLit(0, <<Expression(Call(d1, <<CallArg(<<>>, d2, 47)>>, 48))>>,
                  Assignment("w", Mk("Tuple", Var("x", 1), 4), 49), 5)

\* leading statements of a function body: they hold calls, blocks and
\* function literals
InitStmts ==
    {Expression(Call(d1, <<CallArg(<<>>, d2, 61)>>, 62)),
     Assignment("i", Mk("Block1", InnerFn, 63), 64),
     Use(Call(d2, <<>>, 65), 66)}

InitSeqs == UNION {[1..n -> InitStmts] : n \in 0..MaxInit}

CaseYAB ==
    [tag |-> "Case", location |-> 70, subjects |-> <<Var("y", 71)>>,
     clauses |-> << <<Clause("_", <<>>, Var("a", 72), 73),
                      Clause("_", <<>>, Var("b", 74), 75)>> >>]

\* expressions that hold a function literal
FnHolders == {Mk(sh, f, 1) : sh \in Shapes, f \in {InnerFn, InnerFn2}}

Tails ==
    Atoms \cup Core1 \cup {CaseYAB, Var("go", 1), InnerFn, InnerFn2}
        \cup {Mk(sh, InnerFn, 2) : sh \in {"Block1", "Call", "ListT", "CaseG"}}

FnLits ==
    {FnLit(n, init, MkStmt(kind, e), l) :
        n \in 0..MaxArgs, init \in InitSeqs, kind \in StmtKinds,
        e \in Tails, l \in Locs}

Inputs == NoFnExprs \cup FnHolders \cup FnLits

\* ------------------------------------------------------------- state ----
VARIABLES input, cont, out, calls, twice, pc

vars == <<input, cont, out, calls, twice, pc>>

Nil == [tag |-> "Nil", location |-> 0]

Init ==
    /\ input \in Inputs
    /\ cont = "none"
    /\ out = Nil
    /\ calls = <<>>
    /\ twice = Nil
    /\ pc = "ready"

\* the public entry point, on any expression
ToCps ==
    /\ pc = "ready"
    /\ \E k \in Conts :
         LET r == to_cps(input, k)
         IN /\ cont' = k
            /\ out' = r.out
            /\ calls' = r.calls
    /\ pc' = "to_cps"
    /\ UNCHANGED <<input, twice>>

\* the function-literal converter, on a function literal
CpsFn ==
    /\ pc = "ready"
    /\ input.tag = "Fn"
    /\ \E k \in Conts :
         LET r == cps_fn(input, k)
         IN /\ cont' = k
            /\ out' = r.out
            /\ calls' = r.calls
    /\ pc' = "cps_fn"
    /\ UNCHANGED <<input, twice>>

\* the converter applied again to its own result, both outer continuations
\* being the identity
CpsFnAgain ==
    /\ pc = "cps_fn"
    /\ cont = "id"
    /\ twice' = cps_fn(out, "id").out
    /\ pc' = "cps_fn_twice"
    /\ UNCHANGED <<input, cont, out, calls>>

Next == ToCps \/ CpsFn \/ CpsFnAgain

Spec == Init /\ [][Next]_vars

TypeOK ==
    /\ input \in Inputs
    /\ pc \in {"ready", "to_cps", "cps_fn", "cps_fn_twice"}
    /\ cont \in Conts \cup {"none"}

\* ------------------------------------------------- reference notions ----
\* the expression slot of a statement
StmtExpr(s) ==
    CASE s.stmt = "Expression" -> s.expr
      [] s.stmt = "Assignment" -> s.value
      [] s.stmt = "Use" -> s.call

\* a statement with its expression slot blanked: its other fields
StmtRest(s) ==
    CASE s.stmt = "Expression" -> [s EXCEPT !.expr = Nil]
      [] s.stmt = "Assignment" -> [s EXCEPT !.value = Nil]
      [] s.stmt = "Use" -> [s EXCEPT !.call = Nil]

SizeValues(options) ==
    LET IsSize(o) == o.opt = "Size"
        sz == SelectSeq(options, IsSize)
    IN [i \in DOMAIN sz |-> sz[i].value]

\* the expression nodes directly below a node, in slot order; below a
\* function literal, the expression of its final statement
Children(e) ==
    CASE e.tag \in {"Int", "Float", "String", "Var", "Placeholder"} -> <<>>
      [] e.tag = "Block" ->
           [i \in DOMAIN e.statements |-> StmtExpr(e.statements[i])]
      [] e.tag = "List" -> e.elements \o e.tail
      [] e.tag = "Tuple" -> e.elems
      [] e.tag = "BitArray" ->
           Concat([i \in DOMAIN e.segments |->
                     <<e.segments[i].value>> \o SizeValues(e.segments[i].options)])
      [] e.tag = "Case" ->
           e.subjects \o
           Concat([o \in DOMAIN e.clauses |->
                     [i \in DOMAIN e.clauses[o] |-> e.clauses[o][i].then]])
      [] e.tag = "Fn" -> <<StmtExpr(e.body[Len(e.body)])>>
      [] e.tag = "Call" ->
           <<e.fun>> \o [i \in DOMAIN e.arguments |-> e.arguments[i].value]
      [] e.tag = "BinOp" -> <<e.left, e.right>>
      [] e.tag = "PipeLine" -> e.expressions
      [] e.tag = "FieldAccess" -> <<e.container>>
      [] e.tag = "TupleIndex" -> <<e.tuple>>
      [] e.tag = "RecordUpdate" ->
           <<e.constructor, e.record.base>> \o
           [i \in DOMAIN e.arguments |-> e.arguments[i].value]
      [] e.tag \in {"NegateBool", "NegateInt"} -> <<e.value>>
      [] e.tag \in {"Todo", "Panic"} -> e.message
      [] e.tag = "Echo" -> e.expression

RECURSIVE HasFn(_)
HasFn(e) ==
    \/ e.tag = "Fn"
    \/ \E i \in DOMAIN Children(e) : HasFn(Children(e)[i])

RECURSIVE NodeCount(_)
NodeCount(e) ==
    LET ch == Children(e)
        RECURSIVE Sum(_)
        Sum(i) == IF i = 0 THEN 0 ELSE NodeCount(ch[i]) + Sum(i - 1)
    IN 1 + Sum(Len(ch))

\* tag and stored location of a node (a pipeline stores none)
Sig(e) ==
    [tag |-> e.tag,
     loc |-> IF "location" \in DOMAIN e THEN e.location ELSE 0 - 1]

\* post-order listing of the nodes the walk visits, each with the
\* continuation it is due to: below a function literal, the injected one
RECURSIVE PostOrder(_, _)
PostOrder(e, k) ==
    LET ch == Children(e)
        below == IF e.tag = "Fn" THEN "go" ELSE k
    IN Concat([i \in DOMAIN ch |-> PostOrder(ch[i], below)])
           \o << [k |-> k, sig |-> Sig(e)] >>

\* the continuation applications made, as (continuation, tag, location)
CallSigs == [i \in DOMAIN calls |-> [k |-> calls[i].k, sig |-> Sig(calls[i].arg)]]

\* the node handed to the continuation last: the rebuilt input node
Rebuilt == calls[Len(calls)].arg

\* c is Call(Var("go"), [v]) at the location of v, v the rebuilt form of orig
IsGoCallOn(c, orig) ==
    /\ c.tag = "Call"
    /\ c.location = location(orig)
    /\ c.fun = [tag |-> "Var", location |-> location(orig), name |-> "go"]
    /\ Len(c.arguments) = 1
    /\ c.arguments[1].label = <<>>
    /\ c.arguments[1].location = location(orig)
    /\ Sig(c.arguments[1].value) = Sig(orig)

\* ------------------------------------------------------------- claims ----

\* C1: under the identity continuation, to_cps returns an expression that
\* holds no function literal structurally unchanged, every location and
\* every non-expression field included.
C1_IdentityTransform ==
    (pc = "to_cps" /\ cont = "id" /\ ~HasFn(input)) => out = input

C1_Witness ==
    /\ pc = "to_cps"
    /\ cont = "id"
    /\ input.tag = "Case"
    /\ input.subjects[1].tag = "BitArray"
    /\ Len(input.subjects[1].segments) = 2
    /\ out = input

\* C4: cps_fn hands to the outer continuation, exactly once, a function
\* literal with the original arguments followed by the unannotated
\* parameter "go", with the kind, head index, return annotation and location
\* of the input; the body [x] becomes [Call(Var("go"), [x])] at x's location.
C4_ParameterInjection ==
    pc = "cps_fn" =>
        LET f == Rebuilt
            n == Len(input.arguments)
        IN /\ f.tag = "Fn"
           /\ Len(f.arguments) = n + 1
           /\ SubSeq(f.arguments, 1, n) = input.arguments
           /\ f.arguments[n + 1].names.name = "go"
           /\ f.arguments[n + 1].annotation = <<>>
           /\ f.kind = input.kind
           /\ f.end_of_head_byte_index = input.end_of_head_byte_index
           /\ f.return_annotation = input.return_annotation
           /\ f.location = input.location
           /\ out = Apply(cont, f)
           /\ calls[Len(calls)].k = cont
           /\ Cardinality({i \in DOMAIN calls : calls[i].arg = f}) = 1
           /\ (Len(input.body) = 1 /\ input.body[1].stmt = "Expression"
                 /\ input.body[1].expr.tag = "Var") =>
                LET x == input.body[1].expr
                IN f.body =
                     << [stmt |-> "Expression",
                         expr |-> [tag |-> "Call", location |-> x.location,
                                   fun |-> [tag |-> "Var",
                                            location |-> x.location,
                                            name |-> "go"],
                                   arguments |->
                                     << [location |-> x.location, value |-> x,
                                         label |-> <<>>, implicit |-> <<>>] >>]] >>

C4_Witness ==
    /\ pc = "cps_fn"
    /\ cont = "box"
    /\ Len(input.arguments) = 2
    /\ input.body = <<Expression(Var("x", 1))>>
    /\ Len(Rebuilt.arguments) = 3

\* C5: the body built by cps_fn has as many statements as the input's, its
\* leading statements are those of the input unchanged, and its final
\* statement is the input's final statement, of the same kind, rewritten by
\* cps_statement with the body continuation.
C5_TailOnlyRewiring ==
    pc = "cps_fn" =>
        LET f == Rebuilt
            N == Len(input.body)
        IN /\ Len(f.body) = N
           /\ \A i \in 1..(N - 1) : f.body[i] = input.body[i]
           /\ f.body[N].stmt = input.body[N].stmt
           /\ StmtRest(f.body[N]) = StmtRest(input.body[N])
           /\ IsGoCallOn(StmtExpr(f.body[N]), StmtExpr(input.body[N]))
           /\ f.body[N] = cps_statement(input.body[N], "go").out

C5_Witness ==
    /\ pc = "cps_fn"
    /\ Len(input.body) >= 2
    /\ input.body[1].stmt = "Assignment"
    /\ HasFn(input.body[1].value)
    /\ input.body[Len(input.body)].stmt = "Use"
    /\ Rebuilt.body[1] = input.body[1]

\* b keeps the variant, the stored location, the non-expression fields and
\* the number of child slots of a
SameShape(a, b) ==
    /\ b.tag = a.tag
    /\ DOMAIN b = DOMAIN a
    /\ Sig(b) = Sig(a)
    /\ CASE a.tag = "Block" ->
              /\ Len(b.statements) = Len(a.statements)
              /\ \A i \in DOMAIN a.statements :
                   StmtRest(b.statements[i]) = StmtRest(a.statements[i])
         [] a.tag = "List" ->
              Len(b.elements) = Len(a.elements) /\ Len(b.tail) = Len(a.tail)
         [] a.tag = "Tuple" -> Len(b.elems) = Len(a.elems)
         [] a.tag = "BitArray" ->
              /\ Len(b.segments) = Len(a.segments)
              /\ \A i \in DOMAIN a.segments :
                   LET sa == a.segments[i]
                       sb == b.segments[i]
                   IN /\ sb.location = sa.location
                      /\ Len(sb.options) = Len(sa.options)
                      /\ \A j \in DOMAIN sa.options :
                           IF sa.options[j].opt = "Size"
                           THEN [sb.options[j] EXCEPT !.value = Nil]
                                  = [sa.options[j] EXCEPT !.value = Nil]
                           ELSE sb.options[j] = sa.options[j]
         [] a.tag = "Case" ->
              /\ Len(b.subjects) = Len(a.subjects)
              /\ Len(b.clauses) = Len(a.clauses)
              /\ \A o \in DOMAIN a.clauses :
                   /\ Len(b.clauses[o]) = Len(a.clauses[o])
                   /\ \A i \in DOMAIN a.clauses[o] :
                        [b.clauses[o][i] EXCEPT !.then = Nil]
                          = [a.clauses[o][i] EXCEPT !.then = Nil]
         [] a.tag = "Call" ->
              /\ Len(b.arguments) = Len(a.arguments)
              /\ \A i \in DOMAIN a.arguments :
                   [b.arguments[i] EXCEPT !.value = Nil]
                     = [a.arguments[i] EXCEPT !.value = Nil]
         [] a.tag = "BinOp" -> b.name = a.name
         [] a.tag = "PipeLine" -> Len(b.expressions) = Len(a.expressions)
         [] a.tag = "FieldAccess" ->
              b.label = a.label /\ b.label_location = a.label_location
         [] a.tag = "TupleIndex" -> b.index = a.index
         [] a.tag = "RecordUpdate" ->
              /\ b.record.location = a.record.location
              /\ Len(b.arguments) = Len(a.arguments)
              /\ \A i \in DOMAIN a.arguments :
                   [b.arguments[i] EXCEPT !.value = Nil]
                     = [a.arguments[i] EXCEPT !.value = Nil]
         [] a.tag \in {"NegateBool", "NegateInt"} -> TRUE
         [] a.tag = "Todo" ->
              b.kind = a.kind /\ Len(b.message) = Len(a.message)
         [] a.tag = "Panic" -> Len(b.message) = Len(a.message)
         [] a.tag = "Echo" -> Len(b.expression) = Len(a.expression)

Composites ==
    {"Block", "List", "Tuple", "BitArray", "Case", "Call", "BinOp", "PipeLine",
     "FieldAccess", "TupleIndex", "RecordUpdate", "NegateBool", "NegateInt",
     "Todo", "Panic", "Echo"}

C7_FiringCountAndOrder ==
    (pc = "to_cps" /\ ~HasFn(input)) =>
        /\ Len(calls) = NodeCount(input)
        /\ CallSigs = PostOrder(input, cont)

C7_Witness ==
    /\ pc = "to_cps"
    /\ cont = "go"
    /\ input.tag = "Echo"
    /\ Len(input.expression) = 1
    /\ input.expression[1].tag = "BitArray"
    /\ Len(calls) = 6

\* C9: a block is rebuilt with every statement, the non-final ones
\* included, rewritten by the same continuation: same order, count and
\* kinds, only the expression slot of each statement changed, and the
\* rebuilt block handed to the continuation.
C9_BlockUniform ==
    (pc = "to_cps" /\ input.tag = "Block") =>
        LET b == Rebuilt
        IN /\ b.tag = "Block"
           /\ b.location = input.location
           /\ out = Apply(cont, b)
           /\ Len(b.statements) = Len(input.statements)
           /\ \A i \in DOMAIN input.statements :
                LET s == input.statements[i]
                    t == b.statements[i]
                IN /\ StmtRest(t) = StmtRest(s)
                   /\ \E j \in DOMAIN calls :
                        /\ calls[j].k = cont
                        /\ Sig(calls[j].arg) = Sig(StmtExpr(s))
                        /\ StmtExpr(t) = Apply(cont, calls[j].arg)
                   /\ cont = "go" => IsGoCallOn(StmtExpr(t), StmtExpr(s))
                   /\ (cont = "id" /\ ~HasFn(input)) => t = s

C9_Witness ==
    /\ pc = "to_cps"
    /\ cont = "go"
    /\ input.tag = "Block"
    /\ Len(input.statements) = 3
    /\ Rebuilt.statements[1].value.tag = "Call"
    /\ Rebuilt.statements[2].call.fun.name = "go"

\* the function literals the walk reaches
RECURSIVE FnNodes(_)
FnNodes(e) ==
    LET ch == Children(e)
    IN (IF e.tag = "Fn" THEN {e} ELSE {})
           \cup UNION {FnNodes(ch[i]) : i \in DOMAIN ch}

\* f is g converted: the trailing parameter, the leading statements of g
\* untouched and the value of the final statement handed to "go" once
ConvertedFrom(f, g) ==
    /\ f.location = g.location
    /\ Len(f.arguments) = Len(g.arguments) + 1
    /\ f.arguments[Len(f.arguments)].names.name = "go"
    /\ Len(f.body) = Len(g.body)
    /\ SubSeq(f.body, 1, Len(g.body) - 1) = SubSeq(g.body, 1, Len(g.body) - 1)
    /\ IsGoCallOn(StmtExpr(f.body[Len(f.body)]), StmtExpr(g.body[Len(g.body)]))

\* C10: a function literal reached by the walk is itself converted; the
\* outer continuation is applied once to the rebuilt function and to no
\* expression of its body, whose values go to the function's own parameter.
C10_NestedFnCutsContinuation ==
    (pc \in {"to_cps", "cps_fn"} /\ HasFn(input)) =>
        /\ CallSigs = PostOrder(input, cont)
        /\ \A j \in DOMAIN calls :
             calls[j].arg.tag = "Fn" =>
                \E g \in FnNodes(input) : ConvertedFrom(calls[j].arg, g)

C10_Witness ==
    /\ pc = "cps_fn"
    /\ cont = "box"
    /\ StmtExpr(input.body[Len(input.body)]).tag = "Call"
    /\ Cardinality(FnNodes(input)) = 2
    /\ Cardinality({j \in DOMAIN calls : calls[j].k = "box"}) = 1
    /\ Cardinality({j \in DOMAIN calls : calls[j].arg.tag = "Fn"}) = 2

GoVar(l) == [tag |-> "Var", location |-> l, name |-> "go"]

\* the expression of the final statement of a function literal
TailExpr(f) == StmtExpr(f.body[Len(f.body)])

\* C2 (as stated): the second conversion wraps the final statement left by
\* the first in exactly one more call to "go" and introduces no other call.
C2_ExactlyOneCallEach ==
    pc = "cps_fn_twice" =>
        LET t1 == TailExpr(out)
        IN TailExpr(twice) =
             [tag |-> "Call", location |-> t1.location, fun |-> GoVar(t1.location),
              arguments |-> << [location |-> t1.location, value |-> t1,
                                label |-> <<>>, implicit |-> <<>>] >>]

\* C2 (amended): after two conversions the function has two trailing "go"
\* parameters and its final statement is a call to "go" whose single
\* argument is the first conversion's call, rebuilt in place (nested in
\* application order, not collapsed); the second conversion also rewrites
\* inside that call: its callee Var("go") becomes Call(Var("go"),
\* [Var("go")]) and its argument is wrapped in a further call to "go".
C2_NestedRewrapping ==
    pc = "cps_fn_twice" =>
        LET n == Len(input.arguments)
            N == Len(input.body)
            t1 == TailExpr(out)
            t2 == TailExpr(twice)
            w == t2.arguments[1].value
        IN /\ Len(twice.arguments) = n + 2
           /\ SubSeq(twice.arguments, 1, n) = input.arguments
           /\ twice.arguments[n + 1].names.name = "go"
           /\ twice.arguments[n + 2].names.name = "go"
           /\ SubSeq(twice.body, 1, N - 1) = SubSeq(input.body, 1, N - 1)
           /\ twice.body[N].stmt = input.body[N].stmt
           /\ t2.tag = "Call"
           /\ t2.fun = GoVar(t1.location)
           /\ Len(t2.arguments) = 1
           /\ w.tag = "Call"
           /\ w.location = t1.location
           /\ Len(w.arguments) = 1
           /\ w.fun.tag = "Call"
           /\ w.fun.fun = t1.fun
           /\ Len(w.fun.arguments) = 1
           /\ w.fun.arguments[1].value = t1.fun
           /\ IsGoCallOn(w.arguments[1].value, t1.arguments[1].value)

C2_Witness ==
    /\ pc = "cps_fn_twice"
    /\ input.body = <<Expression(Var("x", 1))>>
    /\ Len(twice.arguments) = Len(input.arguments) + 2
    /\ TailExpr(twice).arguments[1].value.fun.fun = GoVar(1)
    /\ TailExpr(twice).arguments[1].value.arguments[1].value.arguments[1].value
         = Var("x", 1)

\* the input is a function literal ending in the expression statement
\* case y { _ -> a  _ -> b }
EndsInCaseYAB ==
    /\ input.tag = "Fn"
    /\ input.body[Len(input.body)] = Expression(CaseYAB)

GoCallArg(c) == c.arguments[1].value

\* C3 (as stated): the converted final statement holds a case whose clause
\* bodies are Call(Var("go"), [a]) and Call(Var("go"), [b]), patterns and
\* guards kept, and whose single subject is still the variable y.
C3_CaseSubjectsUnchanged ==
    (pc = "cps_fn" /\ EndsInCaseYAB) =>
        LET c == GoCallArg(TailExpr(Rebuilt))
        IN /\ c.tag = "Case"
           /\ Len(c.clauses[1]) = 2
           /\ \A i \in 1..2 :
                /\ IsGoCallOn(c.clauses[1][i].then, CaseYAB.clauses[1][i].then)
                /\ GoCallArg(c.clauses[1][i].then) = CaseYAB.clauses[1][i].then
                /\ c.clauses[1][i].pattern = CaseYAB.clauses[1][i].pattern
                /\ c.clauses[1][i].guard = CaseYAB.clauses[1][i].guard
           /\ c.subjects = CaseYAB.subjects

\* C3 (amended): as stated for the clause bodies, patterns and guards; the
\* subject list still has one entry, and that entry is Call(Var("go"), [y]):
\* the subject is rewritten like every other child.
C3_CaseInTailPosition ==
    (pc = "cps_fn" /\ EndsInCaseYAB) =>
        LET t == TailExpr(Rebuilt)
            c == GoCallArg(t)
        IN /\ IsGoCallOn(t, CaseYAB)
           /\ c.tag = "Case"
           /\ c.location = CaseYAB.location
           /\ Len(c.clauses) = 1
           /\ Len(c.clauses[1]) = 2
           /\ \A i \in 1..2 :
                /\ IsGoCallOn(c.clauses[1][i].then, CaseYAB.clauses[1][i].then)
                /\ GoCallArg(c.clauses[1][i].then) = CaseYAB.clauses[1][i].then
                /\ c.clauses[1][i].pattern = CaseYAB.clauses[1][i].pattern
                /\ c.clauses[1][i].guard = CaseYAB.clauses[1][i].guard
           /\ Len(c.subjects) = 1
           /\ IsGoCallOn(c.subjects[1], CaseYAB.subjects[1])
           /\ GoCallArg(c.subjects[1]) = CaseYAB.subjects[1]

C3_Witness ==
    /\ pc = "cps_fn"
    /\ cont = "id"
    /\ EndsInCaseYAB
    /\ GoCallArg(GoCallArg(TailExpr(out)).clauses[1][2].then) = Var("b", 74)
    /\ GoCallArg(GoCallArg(TailExpr(out)).subjects[1]) = Var("y", 71)

\* the names of the variables referenced where the walk goes
RECURSIVE VarNames(_)
VarNames(e) ==
    LET ch == Children(e)
    IN (IF e.tag = "Var" THEN {e.name} ELSE {})
           \cup UNION {VarNames(ch[i]) : i \in DOMAIN ch}

ArgNames(f) == {f.arguments[i].names.name : i \in DOMAIN f.arguments}

\* C8: the name of the parameter that cps_fn injects differs from the name
\* of every declared argument of the function and from every variable the
\* final statement references, so the converted function has no more
\* equally named arguments than the input had.
C8_FreshParameter ==
    pc = "cps_fn" =>
        LET f == Rebuilt
            injected == f.arguments[Len(f.arguments)].names.name
        IN /\ injected \notin ArgNames(input)
           /\ injected \notin VarNames(TailExpr(input))
           /\ Cardinality(ArgNames(f)) = Cardinality(ArgNames(input)) + 1

====
